---- MODULE Spec2Model ----
(***************************************************************************)
(* Proquint codec (src/proquint.py): encode_uint16, decode_uint16, encode  *)
(* and decode of class Proquint, modelled as operators over sequences of   *)
(* one-character strings (str) and sequences of integers 0..255 (bytes).   *)
(* A call either returns a value or raises; both outcomes are records.     *)
(***************************************************************************)
EXTENDS Integers, Sequences, FiniteSets, TLC

VARIABLES pc,          \* which calls of the run have been made
          double,      \* argument of encode_uint16
          proquint,    \* argument of decode_uint16
          data,        \* argument of encode
          sep,         \* separator argument of encode and decode
          proquints,   \* argument of decode
          word_enc,    \* outcome of encode_uint16
          word_dec,    \* outcome of decode_uint16
          buf_enc,     \* outcome of encode
          buf_dec      \* outcome of decode

vars == <<pc, double, proquint, data, sep, proquints,
          word_enc, word_dec, buf_enc, buf_dec>>

-----------------------------------------------------------------------------
(* Outcomes of a call *)

\* the call has not been made yet
NotCalled == [ok |-> FALSE, type |-> "NotCalled", line |-> 0, args |-> <<>>]

\* `return v`
Return(v) == [ok |-> TRUE, val |-> v]

\* an exception of the given type raised by the statement at the source line,
\* with the exception's args tuple
Raise(type, line, args) == [ok |-> FALSE, type |-> type, line |-> line, args |-> args]

-----------------------------------------------------------------------------
(* Python built-ins used by the codec *)

Pow2(n) == 2 ^ n

RECURSIVE BitAnd(_, _)
\* a & b on non-negative integers
BitAnd(a, b) ==
    IF a = 0 \/ b = 0 THEN 0
    ELSE (a % 2) * (b % 2) + 2 * BitAnd(a \div 2, b \div 2)

RECURSIVE BitOr(_, _)
\* a | b on non-negative integers
BitOr(a, b) ==
    IF a = 0 THEN b
    ELSE IF b = 0 THEN a
    ELSE (IF a % 2 = 1 \/ b % 2 = 1 THEN 1 ELSE 0) + 2 * BitOr(a \div 2, b \div 2)

\* a >> n
ShiftRight(a, n) == a \div Pow2(n)

\* a << n
ShiftLeft(a, n) == a * Pow2(n)

\* reversed(s)
Reversed(s) == [i \in 1..Len(s) |-> s[Len(s) + 1 - i]]

\* c in s, for a one-character c
Contains(s, c) == \E i \in 1..Len(s) : s[i] = c

\* s.index(c), 0-based; the caller raises ValueError when Contains(s, c) is false
Index(s, c) == (CHOOSE i \in 1..Len(s) : s[i] = c /\ \A j \in 1..(i - 1) : s[j] # c) - 1

\* zip(a, b): stops at the shorter of the two
Zip(a, b) ==
    LET n == IF Len(a) < Len(b) THEN Len(a) ELSE Len(b)
    IN  [i \in 1..n |-> <<a[i], b[i]>>]

RECURSIVE Join(_, _)
\* s.join(list)
Join(list, s) ==
    IF list = <<>> THEN <<>>
    ELSE IF Len(list) = 1 THEN list[1]
    ELSE list[1] \o s \o Join(Tail(list), s)

\* first 1-based position at which s occurs in text, 0 when it does not occur
Find(text, s) ==
    LET hits == {i \in 1..(Len(text) - Len(s) + 1) : SubSeq(text, i, i + Len(s) - 1) = s}
    IN  IF hits = {} THEN 0 ELSE CHOOSE i \in hits : \A j \in hits : i <= j

RECURSIVE Split(_, _)
\* text.split(s) for a non-empty s (an empty s raises ValueError in the caller)
Split(text, s) ==
    LET at == Find(text, s)
    IN  IF at = 0 THEN <<text>>
        ELSE <<SubSeq(text, 1, at - 1)>> \o Split(SubSeq(text, at + Len(s), Len(text)), s)

\* int.from_bytes(chunk, "big")
RECURSIVE FromBytesBig(_)
FromBytesBig(chunk) ==
    IF chunk = <<>> THEN 0
    ELSE 256 * FromBytesBig(SubSeq(chunk, 1, Len(chunk) - 1)) + chunk[Len(chunk)]

\* v.to_bytes(2, byteorder="big")
ToBytes2Big(v) == <<(v \div 256) % 256, v % 256>>

\* [data[i:i+2] for i in range(0, len(data), 2)]
Chunks(bytes) ==
    [k \in 1..((Len(bytes) + 1) \div 2) |->
        SubSeq(bytes, 2 * k - 1, IF 2 * k <= Len(bytes) THEN 2 * k ELSE Len(bytes))]

-----------------------------------------------------------------------------
(* class Proquint *)

\* construction key -> (alphabet, length of covered bits)
ALPHABET ==
    [C |-> [alphabet |-> <<"b","d","f","g","h","j","k","l","m","n","p","r","s","t","v","z">>,
            bits |-> 4],
     V |-> [alphabet |-> <<"a","i","o","u">>, bits |-> 2]]

CONSTRUCTION == <<"C", "V", "C", "V", "C">>

\* ''.join(a[0] for a in Proquint.ALPHABET.values())
AllSymbols == ALPHABET["C"].alphabet \o ALPHABET["V"].alphabet

\* the length decode_uint16 asserts
ProquintLength == 5

RECURSIVE EncodeLoop(_, _, _)
\* the for loop of encode_uint16 over the remaining positions
EncodeLoop(positions, dbl, result) ==
    IF positions = <<>> THEN result
    ELSE LET alphabet == ALPHABET[Head(positions)].alphabet
             bits     == ALPHABET[Head(positions)].bits
         IN  EncodeLoop(Tail(positions), ShiftRight(dbl, bits),
                        Append(result, alphabet[BitAnd(dbl, Pow2(bits) - 1) + 1]))

\* mutant: the final reversal of the result is forgotten
EncodeUint16_NoReverse(dbl) == EncodeLoop(Reversed(CONSTRUCTION), dbl, <<>>)

RECURSIVE EncodeLoop_Shift4(_, _, _)
EncodeLoop_Shift4(positions, dbl, result) ==
    IF positions = <<>> THEN result
    ELSE LET alphabet == ALPHABET[Head(positions)].alphabet
             bits     == ALPHABET[Head(positions)].bits
         IN  EncodeLoop_Shift4(Tail(positions), ShiftRight(dbl, 4),
                               Append(result, alphabet[BitAnd(dbl, Pow2(bits) - 1) + 1]))

\* mutant: every field is shifted out by the consonant width
EncodeUint16_Shift4(dbl) == Reversed(EncodeLoop_Shift4(Reversed(CONSTRUCTION), dbl, <<>>))

\* Proquint.encode_uint16
EncodeUint16(dbl) == Reversed(EncodeLoop(Reversed(CONSTRUCTION), dbl, <<>>))

\* the non-iterative implementation given in encode_uint16's docstring
EncodeUint16NonIterative(dbl) ==
    LET c1 == ShiftRight(BitAnd(dbl, 61440), 12)
        v1 == ShiftRight(BitAnd(dbl, 3072), 10)
        c2 == ShiftRight(BitAnd(dbl, 960), 6)
        v2 == ShiftRight(BitAnd(dbl, 48), 4)
        c3 == ShiftRight(BitAnd(dbl, 15), 0)
    IN  <<ALPHABET["C"].alphabet[c1 + 1],
          ALPHABET["V"].alphabet[v1 + 1],
          ALPHABET["C"].alphabet[c2 + 1],
          ALPHABET["V"].alphabet[v2 + 1],
          ALPHABET["C"].alphabet[c3 + 1]>>

RECURSIVE DecodeLoop(_, _)
\* the for loop of decode_uint16 over the remaining (position, char) pairs
DecodeLoop(pairs, result) ==
    IF pairs = <<>> THEN Return(result)
    ELSE LET alphabet == ALPHABET[Head(pairs)[1]].alphabet
             bits     == ALPHABET[Head(pairs)[1]].bits
             char     == Head(pairs)[2]
         IN  IF ~Contains(alphabet, char)
             THEN Raise("ValueError", 94, <<"substring not found">>)
             ELSE DecodeLoop(Tail(pairs), BitOr(ShiftLeft(result, bits), Index(alphabet, char)))

\* mutant: the two assertions are made in the opposite order
DecodeUint16_SymbolsFirst(pq) ==
    IF ~(\A i \in 1..Len(pq) : Contains(AllSymbols, pq[i]))
    THEN Raise("AssertionError", 86, <<>>)
    ELSE IF Len(pq) # ProquintLength
    THEN Raise("AssertionError", 85, <<>>)
    ELSE DecodeLoop(Zip(CONSTRUCTION, pq), 0)

RECURSIVE DecodeLoop_AnyAlphabet(_, _)
DecodeLoop_AnyAlphabet(pairs, result) ==
    IF pairs = <<>> THEN Return(result)
    ELSE LET bits == ALPHABET[Head(pairs)[1]].bits
             char == Head(pairs)[2]
         IN  DecodeLoop_AnyAlphabet(Tail(pairs),
                 BitOr(ShiftLeft(result, bits), Index(AllSymbols, char) % Pow2(bits)))

\* mutant: the symbol is looked up in the joined alphabets instead of the slot's
DecodeUint16_AnyAlphabet(pq) ==
    IF Len(pq) # ProquintLength
    THEN Raise("AssertionError", 85, <<>>)
    ELSE IF ~(\A i \in 1..Len(pq) : Contains(AllSymbols, pq[i]))
    THEN Raise("AssertionError", 86, <<>>)
    ELSE DecodeLoop_AnyAlphabet(Zip(CONSTRUCTION, pq), 0)

\* Proquint.decode_uint16
DecodeUint16(pq) ==
    IF Len(pq) # ProquintLength
    THEN Raise("AssertionError", 85, <<>>)
    ELSE IF ~(\A i \in 1..Len(pq) : Contains(AllSymbols, pq[i]))
    THEN Raise("AssertionError", 86, <<>>)
    ELSE DecodeLoop(Zip(CONSTRUCTION, pq), 0)

\* the list `proquints` built by encode's for loop
EncodeChunks(bytes) ==
    [k \in 1..Len(Chunks(bytes)) |-> EncodeUint16(FromBytesBig(Chunks(bytes)[k]))]

\* mutant: the evenness assertion is missing
Encode_NoAssert(bytes, s) == Return(Join(EncodeChunks(bytes), s))

\* mutant: each chunk is read little-endian
Encode_LittleEndian(bytes, s) ==
    IF Len(bytes) % 2 # 0
    THEN Raise("AssertionError", 70, <<>>)
    ELSE Return(Join([k \in 1..Len(Chunks(bytes)) |->
                        EncodeUint16(FromBytesBig(Reversed(Chunks(bytes)[k])))], s))

\* Proquint.encode
Encode(bytes, s) ==
    IF Len(bytes) % 2 # 0
    THEN Raise("AssertionError", 70, <<>>)
    ELSE Return(Join(EncodeChunks(bytes), s))

RECURSIVE DecodeTokens(_, _)
\* the for loop of decode over the remaining candidates; an exception of
\* decode_uint16 is not caught and leaves decode as it is
DecodeTokens(tokens, result) ==
    IF tokens = <<>> THEN Return(result)
    ELSE LET r == DecodeUint16(Head(tokens))
         IN  IF ~r.ok THEN r
             ELSE DecodeTokens(Tail(tokens), result \o ToBytes2Big(r.val))

RECURSIVE DecodeTokens_SkipBad(_, _)
DecodeTokens_SkipBad(tokens, result) ==
    IF tokens = <<>> THEN Return(result)
    ELSE LET r == DecodeUint16(Head(tokens))
         IN  IF ~r.ok THEN DecodeTokens_SkipBad(Tail(tokens), result)
             ELSE DecodeTokens_SkipBad(Tail(tokens), result \o ToBytes2Big(r.val))

\* mutant: a rejected candidate is skipped and the rest is returned
Decode_SkipBad(text, s) ==
    IF s = <<>>
    THEN Raise("ValueError", 104, <<"empty separator">>)
    ELSE DecodeTokens_SkipBad(Split(text, s), <<>>)

RECURSIVE DecodeTokens_LittleEndian(_, _)
DecodeTokens_LittleEndian(tokens, result) ==
    IF tokens = <<>> THEN Return(result)
    ELSE LET r == DecodeUint16(Head(tokens))
         IN  IF ~r.ok THEN r
             ELSE DecodeTokens_LittleEndian(Tail(tokens),
                                            result \o Reversed(ToBytes2Big(r.val)))

\* mutant: each word is written little-endian
Decode_LittleEndian(text, s) ==
    IF s = <<>>
    THEN Raise("ValueError", 104, <<"empty separator">>)
    ELSE DecodeTokens_LittleEndian(Split(text, s), <<>>)

\* Proquint.decode
Decode(text, s) ==
    IF s = <<>>
    THEN Raise("ValueError", 104, <<"empty separator">>)
    ELSE DecodeTokens(Split(text, s), <<>>)

-----------------------------------------------------------------------------
(* Runs over 16-bit words: encode_uint16(x), then decode_uint16 of the result *)

RECURSIVE SumBits(_)
\* the number of bits one proquint covers
SumBits(positions) ==
    IF positions = <<>> THEN 0
    ELSE ALPHABET[Head(positions)].bits + SumBits(Tail(positions))

\* the unsigned 16-bit words
Words == 0..(Pow2(SumBits(CONSTRUCTION)) - 1)

InitWord ==
    /\ pc = "word"
    /\ double \in Words
    /\ proquint = <<>> /\ data = <<>> /\ sep = <<>> /\ proquints = <<>>
    /\ word_enc = NotCalled /\ word_dec = NotCalled
    /\ buf_enc = NotCalled /\ buf_dec = NotCalled

\* Proquint.encode_uint16(double)
EncodeWord ==
    /\ pc = "word"
    /\ word_enc' = Return(EncodeUint16(double))
    /\ pc' = "word_encoded"
    /\ UNCHANGED <<double, proquint, data, sep, proquints, word_dec, buf_enc, buf_dec>>

\* Proquint.decode_uint16(Proquint.encode_uint16(double))
DecodeEncodedWord ==
    /\ pc = "word_encoded"
    /\ proquint' = word_enc.val
    /\ word_dec' = DecodeUint16(word_enc.val)
    /\ pc' = "word_decoded"
    /\ UNCHANGED <<double, data, sep, proquints, word_enc, buf_enc, buf_dec>>

NextWord == EncodeWord \/ DecodeEncodedWord

SpecWord == InitWord /\ [][NextWord]_vars

\* C1: for every x in [0, 65535], decode_uint16(encode_uint16(x)) raises no
\* error and returns exactly x.
C1_WordRoundTrip ==
    pc = "word_decoded" => word_dec = Return(double)

\* a word with bits set in every field has been encoded and decoded
C1_Witness ==
    /\ pc = "word_decoded"
    /\ double = 43981
    /\ word_dec.ok /\ word_dec.val = 43981

\* C4: for every x in [0, 65535], the iterative encode_uint16(x) equals the
\* most-significant-first field partition of the docstring's non-iterative
\* formulation, and has exactly 5 characters.
C4_EncodeMatchesFieldPartition ==
    pc \in {"word_encoded", "word_decoded"} =>
        /\ word_enc.ok
        /\ word_enc.val = EncodeUint16NonIterative(double)
        /\ Len(word_enc.val) = 5

\* a word whose five fields differ pairwise in position has been encoded
C4_Witness ==
    /\ pc = "word_encoded"
    /\ double = 32512
    /\ word_enc.val = <<"l", "u", "s", "a", "b">>

-----------------------------------------------------------------------------
(* Runs over candidate tokens: decode_uint16(t), then encode_uint16 of the value *)

\* longest candidate token drawn character by character
MaxTokenLen == 6

\* characters of the drawn candidates: first and last consonant, first and last
\* vowel, and two characters of neither alphabet
TokenChars == {"b", "z", "a", "u", "w", "e"}

\* every string over TokenChars of length 0..MaxTokenLen
DrawnTokens == UNION {[1..n -> TokenChars] : n \in 0..MaxTokenLen}

\* the characters of an alphabet
Symbols(key) == {ALPHABET[key].alphabet[i] : i \in 1..Len(ALPHABET[key].alphabet)}

\* every string consonant-vowel-consonant-vowel-consonant
PatternTokens ==
    {<<c1, v1, c2, v2, c3>> : c1 \in Symbols("C"), v1 \in Symbols("V"),
                              c2 \in Symbols("C"), v2 \in Symbols("V"),
                              c3 \in Symbols("C")}

\* t has one character per slot of CONSTRUCTION, each of its slot's alphabet
MatchesConstruction(t) ==
    /\ Len(t) = Len(CONSTRUCTION)
    /\ \A i \in 1..Len(t) : t[i] \in Symbols(CONSTRUCTION[i])

InitToken ==
    /\ pc = "token"
    /\ proquint \in DrawnTokens \cup PatternTokens
    /\ double = 0 /\ data = <<>> /\ sep = <<>> /\ proquints = <<>>
    /\ word_enc = NotCalled /\ word_dec = NotCalled
    /\ buf_enc = NotCalled /\ buf_dec = NotCalled

\* Proquint.decode_uint16(proquint)
DecodeToken ==
    /\ pc = "token"
    /\ word_dec' = DecodeUint16(proquint)
    /\ pc' = "token_decoded"
    /\ UNCHANGED <<double, proquint, data, sep, proquints, word_enc, buf_enc, buf_dec>>

\* Proquint.encode_uint16(Proquint.decode_uint16(proquint)), when a value was returned
EncodeDecodedToken ==
    /\ pc = "token_decoded"
    /\ word_dec.ok
    /\ double' = word_dec.val
    /\ word_enc' = Return(EncodeUint16(word_dec.val))
    /\ pc' = "token_reencoded"
    /\ UNCHANGED <<proquint, data, sep, proquints, word_dec, buf_enc, buf_dec>>

NextToken == DecodeToken \/ EncodeDecodedToken

SpecToken == InitToken /\ [][NextToken]_vars

\* the failure of `assert len(proquint) == 5`
InvalidLength == Raise("AssertionError", 85, <<>>)

\* the failure of the assertion that every character is part of the alphabets
InvalidSymbol == Raise("AssertionError", 86, <<>>)

\* C5: decode_uint16 fails with InvalidSymbol for every 5-character token in
\* which some character is not a member of the alphabet of its own slot,
\* whether the character is outside both alphabets or of the other alphabet.
C5_WrongSymbolIsInvalidSymbol ==
    (/\ pc = "token_decoded"
     /\ Len(proquint) = 5
     /\ \E i \in 1..5 : proquint[i] \notin Symbols(CONSTRUCTION[i]))
        => word_dec = InvalidSymbol

\* C6: decode_uint16 fails with InvalidLength for every string whose length
\* is not exactly 5, whatever its symbols are; it never returns a value.
C6_WrongLengthIsInvalidLength ==
    (pc = "token_decoded" /\ Len(proquint) # 5) => word_dec = InvalidLength

\* a 6-character string of characters of neither alphabet, a 4-character string
\* of valid symbols or the empty string has been rejected for its length
C6_Witness ==
    /\ pc = "token_decoded"
    /\ proquint \in {<<"w", "e", "w", "e", "w", "e">>, <<"b", "a", "b", "a">>, <<>>}
    /\ word_dec = InvalidLength

\* C10: whenever decode_uint16 returns a value v for a string t, v is in
\* [0, 65535] and encode_uint16(v) is t; a value is returned exactly for the
\* strings matching the construction pattern.
C10_DecodeInvertsEncode ==
    /\ pc \in {"token_decoded", "token_reencoded"} =>
            (word_dec.ok <=> MatchesConstruction(proquint))
    /\ pc = "token_decoded" /\ word_dec.ok => word_dec.val \in Words
    /\ pc = "token_reencoded" => word_enc = Return(proquint)

\* an accepted token has been decoded and its value encoded again
C10_Witness ==
    /\ pc = "token_reencoded"
    /\ proquint = <<"z", "u", "b", "a", "z">>
    /\ double = 64527
    /\ word_enc.val = proquint

-----------------------------------------------------------------------------
(* Runs over byte buffers: encode(data, sep), then decode of the result *)

\* longest drawn byte buffer (odd lengths included)
MaxDataLen == 5

\* longest drawn separator
MaxSepLen == 2

\* byte values of the drawn buffers
ByteValues == {0, 1, 127, 255}

\* characters of the drawn separators: the default, a letter of neither
\* alphabet and a consonant
SepChars == {"-", "w", "b"}

DrawnBuffers == UNION {[1..n -> ByteValues] : n \in 0..MaxDataLen}

DrawnSeps == UNION {[1..n -> SepChars] : n \in 0..MaxSepLen}

\* sep: str = '-'
DefaultSep == <<"-">>

\* the examples of the proposal asserted by run_tests, as (packed address, proquints)
ReferenceVectors ==
    { [data |-> <<127, 0, 0, 1>>, text |-> <<"l","u","s","a","b","-","b","a","b","a","d">>],
      [data |-> <<63, 84, 220, 193>>, text |-> <<"g","u","t","i","h","-","t","u","g","a","d">>],
      [data |-> <<63, 118, 7, 35>>, text |-> <<"g","u","t","u","k","-","b","i","s","o","g">>],
      [data |-> <<140, 98, 193, 141>>, text |-> <<"m","u","d","o","f","-","s","a","k","a","t">>],
      [data |-> <<64, 255, 6, 200>>, text |-> <<"h","a","g","u","z","-","b","i","r","a","m">>],
      [data |-> <<128, 30, 52, 45>>, text |-> <<"m","a","b","i","v","-","g","i","b","o","t">>],
      [data |-> <<147, 67, 119, 2>>, text |-> <<"n","a","t","a","g","-","l","i","s","a","f">>],
      [data |-> <<212, 58, 253, 68>>, text |-> <<"t","i","b","u","p","-","z","u","j","a","h">>],
      [data |-> <<216, 35, 68, 215>>, text |-> <<"t","o","b","o","g","-","h","i","g","i","l">>],
      [data |-> <<216, 68, 232, 21>>, text |-> <<"t","o","d","a","h","-","v","o","b","i","j">>],
      [data |-> <<198, 81, 129, 136>>, text |-> <<"s","i","n","i","d","-","m","a","k","a","m">>],
      [data |-> <<12, 110, 110, 204>>, text |-> <<"b","u","d","o","v","-","k","u","r","a","s">>] }

InitBuffer ==
    /\ pc = "buffer"
    /\ data \in DrawnBuffers \cup {v.data : v \in ReferenceVectors}
    /\ sep \in DrawnSeps
    /\ double = 0 /\ proquint = <<>> /\ proquints = <<>>
    /\ word_enc = NotCalled /\ word_dec = NotCalled
    /\ buf_enc = NotCalled /\ buf_dec = NotCalled

\* Proquint.encode(data, sep)
EncodeBuffer ==
    /\ pc = "buffer"
    /\ buf_enc' = Encode(data, sep)
    /\ pc' = "buffer_encoded"
    /\ UNCHANGED <<double, proquint, data, sep, proquints, word_enc, word_dec, buf_dec>>

\* Proquint.decode(Proquint.encode(data, sep), sep), when encode returned
DecodeEncodedBuffer ==
    /\ pc = "buffer_encoded"
    /\ buf_enc.ok
    /\ proquints' = buf_enc.val
    /\ buf_dec' = Decode(buf_enc.val, sep)
    /\ pc' = "buffer_decoded"
    /\ UNCHANGED <<double, proquint, data, sep, word_enc, word_dec, buf_enc>>

NextBuffer == EncodeBuffer \/ DecodeEncodedBuffer

SpecBuffer == InitBuffer /\ [][NextBuffer]_vars

\* the failure of `assert len(data) % 2 == 0`
InvalidInputLength == Raise("AssertionError", 70, <<>>)

\* s contains no character of either alphabet
NoAlphabetChar(s) == \A i \in 1..Len(s) : ~Contains(AllSymbols, s[i])

\* C2: for every even-length buffer (the empty one included) and every
\* separator without alphabet characters (the empty one included),
\* decode(encode(data, sep), sep) returns exactly data.
C2_BufferRoundTrip ==
    (pc = "buffer_decoded" /\ NoAlphabetChar(sep)) => buf_dec = Return(data)

\* the round trip of a non-empty even-length buffer under a non-empty
\* separator without alphabet characters
BufferRoundTripNonEmpty ==
    (pc = "buffer_decoded" /\ NoAlphabetChar(sep) /\ sep # <<>> /\ data # <<>>)
        => buf_dec = Return(data)

\* C3: with the default separator, for each of the twelve reference pairs
\* encode(buffer) is the text and decode(text) is the buffer.
C3_ReferenceVectors ==
    \A v \in ReferenceVectors :
        /\ (pc \in {"buffer_encoded", "buffer_decoded"} /\ data = v.data /\ sep = DefaultSep)
                => buf_enc = Return(v.text)
        /\ (pc = "buffer_decoded" /\ proquints = v.text /\ sep = DefaultSep)
                => buf_dec = Return(v.data)

\* the address 127.0.0.1 has been encoded to lusab-babad and decoded back
C3_Witness ==
    /\ pc = "buffer_decoded"
    /\ sep = DefaultSep
    /\ data = <<127, 0, 0, 1>>
    /\ proquints = <<"l","u","s","a","b","-","b","a","b","a","d">>
    /\ buf_dec.ok /\ buf_dec.val = <<127, 0, 0, 1>>

\* C7: encode fails with InvalidInputLength for every buffer of odd length
\* and any separator; no string is returned.
C7_OddLengthIsInvalidInputLength ==
    (pc = "buffer_encoded" /\ Len(data) % 2 = 1) => buf_enc = InvalidInputLength

\* a 3-byte buffer has been rejected
C7_Witness ==
    /\ pc = "buffer_encoded"
    /\ Len(data) = 3
    /\ buf_enc = InvalidInputLength

\* C8: for a buffer of 2N bytes, N > 0, encode(b, sep) has length
\* 5*N + (N-1)*len(sep) and is N five-character tokens joined by sep, the i-th
\* being encode_uint16 of the big-endian value of b[2i], b[2i+1]; for N = 0
\* the result is the empty string.
C8_EncodeLayout ==
    (pc = "buffer_encoded" /\ Len(data) % 2 = 0) =>
        LET N      == Len(data) \div 2
            stride == 5 + Len(sep)
        IN  /\ buf_enc.ok
            /\ N = 0 => buf_enc.val = <<>>
            /\ N > 0 => Len(buf_enc.val) = 5 * N + (N - 1) * Len(sep)
            /\ \A i \in 0..(N - 1) :
                   SubSeq(buf_enc.val, i * stride + 1, i * stride + 5)
                       = EncodeUint16(data[2 * i + 1] * 256 + data[2 * i + 2])
            /\ \A i \in 0..(N - 2) :
                   SubSeq(buf_enc.val, i * stride + 6, (i + 1) * stride) = sep

\* two different words have been encoded under a two-character separator
C8_Witness ==
    /\ pc = "buffer_encoded"
    /\ data = <<0, 1, 255, 127>>
    /\ Len(sep) = 2
    /\ buf_enc.ok /\ Len(buf_enc.val) = 12

-----------------------------------------------------------------------------
(* Runs over texts: decode(proquints, sep) *)

\* most candidates joined into a drawn text
MaxTokens == 3

\* candidates that decode_uint16 accepts
GoodCandidates == {<<"b","a","b","a","b">>, <<"z","u","z","u","z">>}

\* candidates that decode_uint16 rejects: two of a wrong length, two with a
\* character of neither alphabet, two with a symbol of the other alphabet
BadCandidates ==
    {<<>>, <<"b","a","b">>,
     <<"b","a","w","a","b">>, <<"e","e","e","e","e">>,
     <<"a","b","a","b","a">>, <<"b","b","b","b","b">>}

Candidates == GoodCandidates \cup BadCandidates

\* the texts made of 1..MaxTokens candidates joined by the default separator
DrawnTexts ==
    {Join(list, DefaultSep) : list \in UNION {[1..n -> Candidates] : n \in 1..MaxTokens}}

\* the separators decode is called with
TextSeps == {DefaultSep, <<"-", "-">>, <<"b">>, <<>>}

InitText ==
    /\ pc = "text"
    /\ proquints \in DrawnTexts
    /\ sep \in TextSeps
    /\ double = 0 /\ proquint = <<>> /\ data = <<>>
    /\ word_enc = NotCalled /\ word_dec = NotCalled
    /\ buf_enc = NotCalled /\ buf_dec = NotCalled

\* Proquint.decode(proquints, sep)
DecodeText ==
    /\ pc = "text"
    /\ buf_dec' = Decode(proquints, sep)
    /\ pc' = "text_decoded"
    /\ UNCHANGED <<double, proquint, data, sep, proquints, word_enc, word_dec, buf_enc>>

NextText == DecodeText

SpecText == InitText /\ [][NextText]_vars

\* some candidate of text split by s is rejected by decode_uint16
HasOffender(text, s) ==
    \E i \in 1..Len(Split(text, s)) : ~DecodeUint16(Split(text, s)[i]).ok

\* the first rejected candidate of text split by s, and its position
Offender(text, s) ==
    LET tokens == Split(text, s)
        first  == CHOOSE i \in 1..Len(tokens) :
                      /\ ~DecodeUint16(tokens[i]).ok
                      /\ \A j \in 1..(i - 1) : DecodeUint16(tokens[j]).ok
    IN  [position |-> first, token |-> tokens[first]]

\* texts whose first rejected candidate is a given one at a given position
Probes ==
    {Join([k \in 1..n |-> IF k < n THEN <<"b","a","b","a","b">> ELSE bad], DefaultSep) :
        n \in 1..MaxTokens, bad \in BadCandidates}

\* the failure tells the position of the offender, or tells the offending token:
\* a failure for another position, or for another token, is a different failure
ReportIdentifiesOffender(report, offender) ==
    \/ \A t \in Probes :
           Offender(t, DefaultSep).position # offender.position
               => Decode(t, DefaultSep) # report
    \/ \A t \in Probes :
           Offender(t, DefaultSep).token # offender.token
               => Decode(t, DefaultSep) # report

\* decode fails with the failure decode_uint16 gives for the first rejected
\* candidate, and returns no bytes
FailsAsFirstOffender ==
    /\ ~buf_dec.ok
    /\ buf_dec = DecodeUint16(Offender(proquints, sep).token)

\* C9 as stated: when a candidate of the split text is rejected, decode
\* fails with the decode_uint16 error of the first rejected candidate,
\* returns no partial bytes, and the failure identifies which token or
\* position failed.
C9_FailureIdentifiesOffender ==
    (pc = "text_decoded" /\ sep # <<>> /\ HasOffender(proquints, sep)) =>
        /\ FailsAsFirstOffender
        /\ ReportIdentifiesOffender(buf_dec, Offender(proquints, sep))

\* C9 as amended: when a candidate of the split text is rejected, decode
\* fails with exactly the failure decode_uint16 gives for the first rejected
\* candidate in order, and returns no partial byte sequence.
C9_FailsAsFirstOffender ==
    (pc = "text_decoded" /\ sep # <<>> /\ HasOffender(proquints, sep)) =>
        FailsAsFirstOffender

\* a text whose second candidate has a foreign character and whose third is
\* too short has been rejected for the second
C9_Witness ==
    /\ pc = "text_decoded"
    /\ sep = DefaultSep
    /\ proquints = <<"b","a","b","a","b","-","b","a","w","a","b","-","b","a","b">>
    /\ buf_dec = InvalidSymbol

====
